---- MODULE Spec2Model ----
(***************************************************************************)
(* Media caches and fetch schedulers of the feed UI.                       *)
(*                                                                         *)
(*   VideoCacheService  src/src/lib/cache.ts   (variables v...)            *)
(*   ImageCacheService  src/src/lib/cache.ts   (variables i...)            *)
(*   ImageCacheService  src/unnamed/part_000   (variables o..., the        *)
(*                      IntersectionObserver-driven variant)               *)
(*                                                                         *)
(* The services are independent singletons: each has its own variables,    *)
(* its own next-state relation and its own specification.  One browser     *)
(* event loop runs every handler to completion, so an action is a whole    *)
(* handler; a fetch is in flight between the action that starts it and the *)
(* action that completes it.  Handlers are written as functions from a     *)
(* record of the service's fields to the record after the call.            *)
(***************************************************************************)
EXTENDS Integers, Sequences, FiniteSets, TLC

\* ------------------------------------------------------------------ bounds

\* URLs are 1..N; every URL is a non-empty string in the source.
NumVideoUrls == 4
\* The clock advances at most this many times in one behaviour.
MaxTicks == 2
NumImageUrls == 3
\* Image loads in flight at once (nothing in the image services limits the
\* loads that 'high' requests start; the actions stop at this many).
MaxImageLoads == 3
\* URLs whose load can fail in the promotion runs.
NumFlakyImageUrls == 2
\* Longest url list handed to preloadBatch.
MaxBatch == 2
NumObsUrls == 2
\* Elements that carry an observed image.
NumObsElements == 1
\* Cache keys of the posts cache.
NumPostKeys == 2
\* Non-empty post lists a caller stores (0 is the empty list).
NumPostLists == 1
MaxRequests == 4
MaxPlays == 2
NumNavUrls == 5
MaxFetched == 4

VideoUrls == 1..NumVideoUrls
Priorities == {"high", "low"}

\* Absent Map entry (Map.get returns undefined).
None == [absent |-> TRUE]

\* ------------------------------------------------------------------ Map
\* A JavaScript Map iterates in insertion order; set() on a present key
\* keeps the key's place.  A Map is a sequence of entries with distinct url.

RECURSIVE MapIndex(_, _, _)
MapIndex(m, u, i) ==
  IF i > Len(m) THEN 0
  ELSE IF m[i].url = u THEN i
  ELSE MapIndex(m, u, i + 1)

MapHas(m, u) == MapIndex(m, u, 1) # 0

MapGet(m, u) == IF MapHas(m, u) THEN m[MapIndex(m, u, 1)] ELSE None

MapSet(m, e) ==
  IF MapHas(m, e.url) THEN [m EXCEPT ![MapIndex(m, e.url, 1)] = e]
  ELSE Append(m, e)

MapDelete(m, u) == SelectSeq(m, LAMBDA e : e.url # u)

MapKeys(m) == {m[i].url : i \in 1..Len(m)}

\* The sum of f over the set S.
RECURSIVE SumOver(_, _)
SumOver(f, S) ==
  IF S = {} THEN 0
  ELSE LET x == CHOOSE y \in S : TRUE IN f[x] + SumOver(f, S \ {x})

\* ------------------------------------------------------------------ clock

VARIABLES
  now,    \* Date.now()
  ticks,  \* how often the clock has advanced
  driven  \* the service the page drives in this behaviour

clock == <<now, ticks, driven>>

VARIABLES
  issued  \* requests the callers have issued, where only finitely many are


VARIABLES
  vCache,            \* Map url -> CachedVideo {timestamp, size}
  vLoadPromises,     \* keys of loadPromises
  vPreloadQueue,     \* Array<{url, priority}>
  vActiveLoads,      \* activeLoads
  vCurrentCacheSize, \* currentCacheSize
  vFetching,         \* url -> loadVideo calls awaiting fetch()/blob()
  vAdmitting         \* url -> loadVideo calls past ensureSpace, awaiting its promise

videoVars == <<vCache, vLoadPromises, vPreloadQueue, vActiveLoads,
               vCurrentCacheSize, vFetching, vAdmitting>>

VARIABLES
  iCache,        \* Map url -> CachedImage {loaded, loading, error, timestamp}
  iLoadPromises, \* keys of loadPromises
  iPreloadQueue, \* string[]
  iActiveLoads,  \* activeLoads
  iLoading       \* url -> Image() loads started and not yet fired onload/onerror

imageVars == <<iCache, iLoadPromises, iPreloadQueue, iActiveLoads, iLoading>>

VARIABLES
  oCache,            \* Map url -> CachedImage {loaded, loading, error, timestamp}
  oPreloadQueue,     \* Set<string>, in insertion order
  oActiveLoads,      \* activeLoads
  oLoading,          \* url -> Image() loads started and not yet fired onload/onerror
  oObservedElements, \* Map url -> element (0: no entry)
  oDataSrc,          \* element -> its data-src attribute (0: none)
  oWatched           \* the elements the IntersectionObserver observes

obsVars == <<oCache, oPreloadQueue, oActiveLoads, oLoading,
             oObservedElements, oDataSrc, oWatched>>

VARIABLES
  pCache,   \* Map key -> PostsCacheEntry {posts, lastDoc, timestamp, stale}
  pStorage, \* sessionStorage under STORAGE_KEY
  pThrew    \* the last call into the posts cache ended by throwing

postsVars == <<pCache, pStorage, pThrew>>

\* What the handlers of one service leave alone.
VARIABLES
  lvMuted,      \* video.muted
  lvIsMuted,    \* isMuted (state)
  lvVisible,    \* isVisibleRef.current
  lvUserPaused, \* userPaused, and userPausedRef.current that follows it
  lvPaused,     \* video.paused
  lvPreload,    \* video.preload
  lvAutoPlay,   \* pending play() promises of tryPlay
  lvTapPlay,    \* pending play() promises of handleContainerClick
  lvMutedPlay,  \* pending play() promises of the muted retries
  lvUnlock,     \* the once-only click/touchstart listener is still attached
  lvFellBack    \* an unmuted play() was rejected and the user has not interacted since

lazyVars == <<lvMuted, lvIsMuted, lvVisible, lvUserPaused, lvPaused, lvPreload,
              lvAutoPlay, lvTapPlay, lvMutedPlay, lvUnlock, lvFellBack>>

VARIABLES
  nvCache,   \* imageCache, the Set of loaded urls (CategoryNav.tsx)
  nvLoading, \* url -> Image() loads started and not yet fired onload/onerror
  nvTimers,  \* the url lists of the pending setTimeout callbacks, in order
  nvCalled   \* the page has called preloadImages

navVars == <<nvCache, nvLoading, nvTimers, nvCalled>>

VARIABLES
  fpCache,  \* postsCache of postsService.ts, for one category key
  fpResult, \* what the last fetchPosts call returned
  fpSource  \* what the call that filled fpCache returned

fetchVars == <<fpCache, fpResult, fpSource>>

others == <<issued, lazyVars, navVars, fetchVars>>
notVideo == <<imageVars, obsVars, postsVars, others>>
notImage == <<videoVars, obsVars, postsVars, others>>
notObs == <<videoVars, imageVars, postsVars, others>>
notPosts == <<videoVars, imageVars, obsVars, others>>

\* ------------------------------------------------------------------ video

MB == 1024 * 1024
VIDEO_MAX_CACHE_SIZE == 50 * MB
VIDEO_MAX_CONCURRENT_LOADS == 2
VIDEO_CACHE_TTL == 60 * 60 * 1000

\* blob.size of the resource behind a URL (resources are immutable).
VideoBlobSize(u) == (10 + 10 * u) * MB

\* The fields of the service as one record.
VideoState ==
  [cache |-> vCache, loadPromises |-> vLoadPromises, preloadQueue |-> vPreloadQueue,
   activeLoads |-> vActiveLoads, currentCacheSize |-> vCurrentCacheSize,
   fetching |-> vFetching, admitting |-> vAdmitting]

VideoSet(s) ==
  /\ vCache' = s.cache
  /\ vLoadPromises' = s.loadPromises
  /\ vPreloadQueue' = s.preloadQueue
  /\ vActiveLoads' = s.activeLoads
  /\ vCurrentCacheSize' = s.currentCacheSize
  /\ vFetching' = s.fetching
  /\ vAdmitting' = s.admitting

\* removeFromCache(url): revoke, subtract the size, delete.
Video_removeFromCache(s, u) ==
  IF MapHas(s.cache, u)
  THEN [s EXCEPT !.currentCacheSize = @ - MapGet(s.cache, u).size,
                 !.cache = MapDelete(@, u)]
  ELSE s

\* Faulty variant of Video_expired: an entry expires once it is TTL old.
Video_expiredAtTtl(s, u, t) ==
  MapHas(s.cache, u) /\ t - MapGet(s.cache, u).timestamp >= VIDEO_CACHE_TTL

Video_expired(s, u, t) ==
  MapHas(s.cache, u) /\ t - MapGet(s.cache, u).timestamp > VIDEO_CACHE_TTL

\* isCached(url): its result, and the state it leaves (an expired entry is removed).
Video_isCached(s, u, t) == MapHas(s.cache, u) /\ ~Video_expired(s, u, t)

Video_isCachedState(s, u, t) ==
  IF Video_expired(s, u, t) THEN Video_removeFromCache(s, u) ELSE s

\* getCachedUrl(url): bumps the timestamp of a present entry.
Video_getCachedUrl(s, u, t) ==
  IF MapHas(s.cache, u)
  THEN [s EXCEPT !.cache = MapSet(@, [MapGet(s.cache, u) EXCEPT !.timestamp = t])]
  ELSE s

\* loadVideo(url) up to its first await: activeLoads++, fetch() issued,
\* loadPromises.set(url, promise).
Video_loadVideo(s, u) ==
  [s EXCEPT !.activeLoads = @ + 1,
            !.fetching[u] = @ + 1,
            !.loadPromises = @ \cup {u}]

\* processQueue(): isProcessing is set and cleared inside the call and nothing
\* it calls re-enters it, so the flag is false whenever a handler starts.
RECURSIVE Video_processQueue(_, _)
Video_processQueue(s, t) ==
  IF s.activeLoads < VIDEO_MAX_CONCURRENT_LOADS /\ Len(s.preloadQueue) > 0
  THEN LET item == Head(s.preloadQueue)
           s1 == [s EXCEPT !.preloadQueue = Tail(@)]
           s2 == Video_isCachedState(s1, item.url, t)
       IN IF Video_isCached(s1, item.url, t)
          THEN Video_processQueue(s2, t)
          ELSE Video_processQueue(Video_loadVideo(s2, item.url), t)
  ELSE s

Video_queued(q, u) == \E i \in 1..Len(q) : q[i].url = u

\* Faulty variant of Video_enqueue: every request goes to the back.
Video_enqueueAtBack(s, u, p, t) ==
  LET q == s.preloadQueue
      q1 == IF Video_queued(q, u) THEN q
            ELSE Append(q, [url |-> u, priority |-> p])
  IN Video_processQueue([s EXCEPT !.preloadQueue = q1], t)

\* The else-branch of preload: add to the queue unless present, then drain.
Video_enqueue(s, u, p, t) ==
  LET q == s.preloadQueue
      q1 == IF Video_queued(q, u) THEN q
            ELSE IF p = "high" THEN <<[url |-> u, priority |-> p]>> \o q
            ELSE Append(q, [url |-> u, priority |-> p])
  IN Video_processQueue([s EXCEPT !.preloadQueue = q1], t)

\* Faulty variant of Video_preload: loadPromises is not consulted.
Video_preloadNoJoin(s, u, p, t) ==
  IF Video_isCached(s, u, t) THEN Video_getCachedUrl(s, u, t)
  ELSE LET s1 == Video_isCachedState(s, u, t)
       IN IF p = "high" /\ s1.activeLoads < VIDEO_MAX_CONCURRENT_LOADS
          THEN Video_loadVideo(s1, u)
          ELSE Video_enqueue(s1, u, p, t)

\* Faulty variant of Video_preload: 'high' starts the fetch whatever
\* activeLoads is (as ImageCacheService.preload does).
Video_preloadEager(s, u, p, t) ==
  IF Video_isCached(s, u, t) THEN Video_getCachedUrl(s, u, t)
  ELSE LET s1 == Video_isCachedState(s, u, t)
       IN IF u \in s1.loadPromises THEN s1
          ELSE IF p = "high"
          THEN Video_loadVideo(s1, u)
          ELSE Video_enqueue(s1, u, p, t)

\* preload(url, priority): the state after the call.
Video_preload(s, u, p, t) ==
  IF Video_isCached(s, u, t) THEN Video_getCachedUrl(s, u, t)
  ELSE LET s1 == Video_isCachedState(s, u, t)
       IN IF u \in s1.loadPromises THEN s1
          ELSE IF p = "high" /\ s1.activeLoads < VIDEO_MAX_CONCURRENT_LOADS
          THEN Video_loadVideo(s1, u)
          ELSE Video_enqueue(s1, u, p, t)

\* preload(url, priority): the future handed to the caller.
\*   "hit"     resolved with the cached blob URL
\*   "joined"  the promise of the fetch already in flight
\*   "started" the promise of the fetch this call started
\*   "null"    already resolved with null (the request went to the queue)
Video_preloadResult(s, u, p, t) ==
  IF Video_isCached(s, u, t) THEN "hit"
  ELSE IF u \in s.loadPromises THEN "joined"
  ELSE IF p = "high" /\ s.activeLoads < VIDEO_MAX_CONCURRENT_LOADS THEN "started"
  ELSE "null"

\* Faulty variant of Video_prioritize: the queued request is left where it is.
Video_prioritizeInPlace(s, u, t) ==
  IF Video_isCached(s, u, t) THEN s
  ELSE Video_preload(Video_isCachedState(s, u, t), u, "high", t)

\* prioritize(url)
Video_prioritize(s, u, t) ==
  IF Video_isCached(s, u, t) THEN s
  ELSE LET s1 == Video_isCachedState(s, u, t)
           s2 == [s1 EXCEPT !.preloadQueue = SelectSeq(@, LAMBDA it : it.url # u)]
       IN Video_preload(s2, u, "high", t)

\* cleanup(): remove every expired entry.
RECURSIVE Video_removeAll(_, _)
Video_removeAll(s, us) ==
  IF us = {} THEN s
  ELSE LET u == CHOOSE x \in us : TRUE
       IN Video_removeAll(Video_removeFromCache(s, u), us \ {u})

Video_cleanup(s, t) ==
  Video_removeAll(s, {u \in MapKeys(s.cache) : Video_expired(s, u, t)})

\* clear(): activeLoads and the fetches in flight are left as they are.
Video_clear(s) ==
  [s EXCEPT !.cache = <<>>, !.preloadQueue = <<>>, !.loadPromises = {},
            !.currentCacheSize = 0]

\* The entry ensureSpace removes next: the first in Map order with the
\* smallest timestamp (the scan replaces oldestUrl only on a strictly
\* smaller timestamp).
RECURSIVE Video_oldest(_, _, _)
Video_oldest(m, i, best) ==
  IF i > Len(m) THEN best
  ELSE IF best = 0 \/ m[i].timestamp < m[best].timestamp
       THEN Video_oldest(m, i + 1, i)
       ELSE Video_oldest(m, i + 1, best)

\* ensureSpace(neededSize)
RECURSIVE Video_ensureSpace(_, _)
Video_ensureSpace(s, needed) ==
  IF s.currentCacheSize + needed > VIDEO_MAX_CACHE_SIZE /\ Len(s.cache) > 0
  THEN Video_ensureSpace(
         Video_removeFromCache(s, s.cache[Video_oldest(s.cache, 1, 0)].url), needed)
  ELSE s

\* The finally block of loadVideo.
Video_finally(s, u, t) ==
  Video_processQueue(
    [s EXCEPT !.activeLoads = @ - 1, !.loadPromises = @ \ {u}], t)

\* fetch() rejects, the response is not ok, or blob() rejects: resolve(null).
Video_fetchFailed(s, u, t) ==
  Video_finally([s EXCEPT !.fetching[u] = @ - 1], u, t)

\* blob() resolves: createObjectURL, then ensureSpace runs to its end and
\* loadVideo awaits the promise it returned.
Video_blobReady(s, u) ==
  Video_ensureSpace(
    [s EXCEPT !.fetching[u] = @ - 1, !.admitting[u] = @ + 1], VideoBlobSize(u))

\* After the await: cache.set, currentCacheSize += size, resolve(blobUrl), finally.
Video_admit(s, u, t) ==
  Video_finally(
    [s EXCEPT !.admitting[u] = @ - 1,
              !.cache = MapSet(@, [url |-> u, timestamp |-> t, size |-> VideoBlobSize(u)]),
              !.currentCacheSize = @ + VideoBlobSize(u)],
    u, t)

\* ---- actions

VideoPreload(u, p) ==
  /\ driven = "video"
  /\ VideoSet(Video_preload(VideoState, u, p, now))
  /\ UNCHANGED <<clock, notVideo>>

VideoPrioritize(u) ==
  /\ driven = "video"
  /\ VideoSet(Video_prioritize(VideoState, u, now))
  /\ UNCHANGED <<clock, notVideo>>

VideoIsCached(u) ==
  /\ driven = "video"
  /\ VideoSet(Video_isCachedState(VideoState, u, now))
  /\ UNCHANGED <<clock, notVideo>>

VideoGetCachedUrl(u) ==
  /\ driven = "video"
  /\ VideoSet(Video_getCachedUrl(VideoState, u, now))
  /\ UNCHANGED <<clock, notVideo>>

VideoCleanup ==
  /\ driven = "video"
  /\ VideoSet(Video_cleanup(VideoState, now))
  /\ UNCHANGED <<clock, notVideo>>

VideoClear ==
  /\ driven = "video"
  /\ VideoSet(Video_clear(VideoState))
  /\ UNCHANGED <<clock, notVideo>>

VideoFetchFailed(u) ==
  /\ driven = "video"
  /\ vFetching[u] > 0
  /\ VideoSet(Video_fetchFailed(VideoState, u, now))
  /\ UNCHANGED <<clock, notVideo>>

VideoBlobReady(u) ==
  /\ driven = "video"
  /\ vFetching[u] > 0
  /\ VideoSet(Video_blobReady(VideoState, u))
  /\ UNCHANGED <<clock, notVideo>>

VideoAdmit(u) ==
  /\ driven = "video"
  /\ vAdmitting[u] > 0
  /\ VideoSet(Video_admit(VideoState, u, now))
  /\ UNCHANGED <<clock, notVideo>>

\* Date.now() moves on: by a millisecond, or by the TTL.
VideoTick ==
  /\ driven = "video"
  /\ ticks < MaxTicks
  /\ \E d \in {1, VIDEO_CACHE_TTL} : now' = now + d
  /\ ticks' = ticks + 1
  /\ UNCHANGED driven
  /\ UNCHANGED <<videoVars, notVideo>>


\* ------------------------------------------------------------------ image

ImageUrls == 1..NumImageUrls
\* One URL more, for the runs that only schedule (ImagePromotionNext).
ImageUrlsWide == 1..(NumImageUrls + 1)
ImageFlakyUrls == 1..NumFlakyImageUrls

IMAGE_CACHE_TTL == 30 * 60 * 1000
\* Tunable configuration, checked at the values of the spec's scenarios
\* (the source sets MAX_CACHE_SIZE = 300 and CONCURRENT_LOADS = 6).
IMAGE_MAX_CACHE_SIZE == 2
IMAGE_CONCURRENT_LOADS == 2

ImageState ==
  [cache |-> iCache, loadPromises |-> iLoadPromises, preloadQueue |-> iPreloadQueue,
   activeLoads |-> iActiveLoads, loading |-> iLoading]

ImageSet(s) ==
  /\ iCache' = s.cache
  /\ iLoadPromises' = s.loadPromises
  /\ iPreloadQueue' = s.preloadQueue
  /\ iActiveLoads' = s.activeLoads
  /\ iLoading' = s.loading

\* At most MaxImageLoads loads are in flight (the model's cap).
ImageWithinBound(s) == SumOver(s.loading, ImageUrlsWide) <= MaxImageLoads

\* isLoaded(url)
Image_isLoaded(s, u) == MapHas(s.cache, u) /\ MapGet(s.cache, u).loaded

\* loadImage(url): activeLoads++, img.src = url, loadPromises.set(url, promise).
Image_loadImage(s, u) ==
  [s EXCEPT !.activeLoads = @ + 1,
            !.loading[u] = @ + 1,
            !.loadPromises = @ \cup {u}]

\* processQueue(): isProcessing is set and cleared inside the call and nothing
\* it calls re-enters it, so the flag is false whenever a handler starts.
RECURSIVE Image_processQueue(_)
Image_processQueue(s) ==
  IF s.activeLoads < IMAGE_CONCURRENT_LOADS /\ Len(s.preloadQueue) > 0
  THEN LET url == Head(s.preloadQueue)
           s1 == [s EXCEPT !.preloadQueue = Tail(@)]
       IN IF ~Image_isLoaded(s1, url)
          THEN Image_processQueue(Image_loadImage(s1, url))
          ELSE Image_processQueue(s1)
  ELSE s

SeqHas(q, u) == \E i \in 1..Len(q) : q[i] = u

\* preload(url, priority): the state after the call.
Image_preload(s, u, p, t) ==
  IF Image_isLoaded(s, u) THEN s
  ELSE IF u \in s.loadPromises THEN s
  ELSE LET s1 == [s EXCEPT !.cache = MapSet(@,
                     [url |-> u, loaded |-> FALSE, loading |-> TRUE,
                      error |-> FALSE, timestamp |-> t])]
       IN IF p = "high" THEN Image_loadImage(s1, u)
          ELSE Image_processQueue(
                 [s1 EXCEPT !.preloadQueue =
                    IF SeqHas(@, u) THEN @ ELSE Append(@, u)])

\* preload(url, priority): the future handed to the caller.
\*   "hit"     resolved with true
\*   "joined"  the promise of the load already in flight
\*   "started" the promise of the load this call started
\*   "false"   already resolved with false (the request went to the queue)
Image_preloadResult(s, u, p) ==
  IF Image_isLoaded(s, u) THEN "hit"
  ELSE IF u \in s.loadPromises THEN "joined"
  ELSE IF p = "high" THEN "started"
  ELSE "false"

\* preloadBatch(urls, priorityIndices): preload each url in turn, 'high' for
\* the (0-based) indices listed.
RECURSIVE Image_preloadBatch(_, _, _, _, _)
Image_preloadBatch(s, urls, idx, i, t) ==
  IF i > Len(urls) THEN s
  ELSE Image_preloadBatch(
         Image_preload(s, urls[i], IF (i - 1) \in idx THEN "high" ELSE "low", t),
         urls, idx, i + 1, t)

\* prioritize(url)
Image_prioritize(s, u, t) ==
  IF Image_isLoaded(s, u) THEN s
  ELSE Image_preload(
         [s EXCEPT !.preloadQueue = SelectSeq(@, LAMBDA x : x # u)], u, "high", t)

\* Array.prototype.sort by timestamp (stable): insertion into a sorted prefix.
RECURSIVE SortInsert(_, _)
SortInsert(sorted, e) ==
  IF sorted = <<>> THEN <<e>>
  ELSE IF sorted[Len(sorted)].timestamp <= e.timestamp THEN Append(sorted, e)
  ELSE Append(SortInsert(SubSeq(sorted, 1, Len(sorted) - 1), e), sorted[Len(sorted)])

RECURSIVE SortByTimestamp(_)
SortByTimestamp(m) ==
  IF m = <<>> THEN <<>>
  ELSE SortInsert(SortByTimestamp(SubSeq(m, 1, Len(m) - 1)), m[Len(m)])

\* cleanup(): drop the expired entries, then the oldest ones over MAX_CACHE_SIZE.
Image_removeExpired(m, t) ==
  SelectSeq(m, LAMBDA e : ~(t - e.timestamp > IMAGE_CACHE_TTL))

\* Faulty variant of Image_evictOver: the newest entries go.
Image_evictNewest(m) ==
  IF Len(m) > IMAGE_MAX_CACHE_SIZE
  THEN LET sorted == SortByTimestamp(m)
           toRemove == {sorted[i].url : i \in (IMAGE_MAX_CACHE_SIZE + 1)..Len(m)}
       IN SelectSeq(m, LAMBDA e : e.url \notin toRemove)
  ELSE m

Image_evictOver(m) ==
  IF Len(m) > IMAGE_MAX_CACHE_SIZE
  THEN LET sorted == SortByTimestamp(m)
           toRemove == {sorted[i].url : i \in 1..(Len(m) - IMAGE_MAX_CACHE_SIZE)}
       IN SelectSeq(m, LAMBDA e : e.url \notin toRemove)
  ELSE m

Image_cleanup(s, t) ==
  [s EXCEPT !.cache = Image_evictOver(Image_removeExpired(@, t))]

\* clear(): activeLoads and the loads in flight are left as they are.
Image_clear(s) ==
  [s EXCEPT !.cache = <<>>, !.preloadQueue = <<>>, !.loadPromises = {}]

\* Faulty variant of Image_loadDone: the closure does not call processQueue().
Image_loadDoneNoDrain(s, u) ==
  [s EXCEPT !.loading[u] = @ - 1, !.activeLoads = @ - 1,
            !.loadPromises = @ \ {u}]

\* The cleanup closure of loadImage.
Image_loadDone(s, u) ==
  Image_processQueue(
    [s EXCEPT !.loading[u] = @ - 1, !.activeLoads = @ - 1,
              !.loadPromises = @ \ {u}])

\* img.onload
Image_onload(s, u, t) ==
  Image_loadDone(
    IF MapHas(s.cache, u)
    THEN [s EXCEPT !.cache = MapSet(@, [MapGet(s.cache, u) EXCEPT
                       !.loaded = TRUE, !.loading = FALSE, !.timestamp = t])]
    ELSE s, u)

\* img.onerror
Image_onerror(s, u) ==
  Image_loadDone(
    IF MapHas(s.cache, u)
    THEN [s EXCEPT !.cache = MapSet(@, [MapGet(s.cache, u) EXCEPT
                       !.error = TRUE, !.loading = FALSE])]
    ELSE s, u)

\* ---- actions

\* A handler's step: the fields after the call, within the model's cap.
ImageStep(s) ==
  /\ ImageWithinBound(s)
  /\ ImageSet(s)
  /\ UNCHANGED <<clock, notImage>>

ImagePreload(u, p) ==
  /\ driven = "image"
  /\ ImageStep(Image_preload(ImageState, u, p, now))

ImagePreloadBatch(urls, idx) ==
  /\ driven = "image"
  /\ ImageStep(Image_preloadBatch(ImageState, urls, idx, 1, now))

ImagePrioritize(u) ==
  /\ driven = "image"
  /\ ImageStep(Image_prioritize(ImageState, u, now))

ImageCleanup ==
  /\ driven = "image"
  /\ ImageStep(Image_cleanup(ImageState, now))

ImageClear ==
  /\ driven = "image"
  /\ ImageStep(Image_clear(ImageState))

ImageOnload(u) ==
  /\ driven = "image"
  /\ iLoading[u] > 0
  /\ ImageStep(Image_onload(ImageState, u, now))

ImageOnerror(u) ==
  /\ driven = "image"
  /\ iLoading[u] > 0
  /\ ImageStep(Image_onerror(ImageState, u))

\* Date.now() moves on: by a millisecond, or by the TTL.
ImageTick ==
  /\ driven = "image"
  /\ ticks < MaxTicks
  /\ \E d \in {1, IMAGE_CACHE_TTL} : now' = now + d
  /\ ticks' = ticks + 1
  /\ UNCHANGED driven
  /\ UNCHANGED <<imageVars, notImage>>

\* The url lists handed to preloadBatch: distinct URLs, at most MaxBatch long.
ImageBatches ==
  {q \in UNION {[1..n -> ImageUrls] : n \in 1..MaxBatch} :
     \A i, j \in 1..Len(q) : i # j => q[i] # q[j]}

\* ------------------------------------------------------------------ image (IntersectionObserver variant)

ObsUrls == 1..NumObsUrls
ObsElements == 1..NumObsElements
\* Two URLs more, for the runs that only load and age (ObsExpiryNext).
ObsUrlsWide == 1..(NumObsUrls + 2)

OBS_CACHE_TTL == 30 * 60 * 1000
\* Tunable configuration, checked at the values of the spec's scenarios
\* (the source sets MAX_CACHE_SIZE = 200 and CONCURRENT_LOADS = 4).
OBS_MAX_CACHE_SIZE == 2
OBS_CONCURRENT_LOADS == 1

ObsState ==
  [cache |-> oCache, preloadQueue |-> oPreloadQueue, activeLoads |-> oActiveLoads,
   loading |-> oLoading, observedElements |-> oObservedElements,
   dataSrc |-> oDataSrc, watched |-> oWatched]

ObsSet(s) ==
  /\ oCache' = s.cache
  /\ oPreloadQueue' = s.preloadQueue
  /\ oActiveLoads' = s.activeLoads
  /\ oLoading' = s.loading
  /\ oObservedElements' = s.observedElements
  /\ oDataSrc' = s.dataSrc
  /\ oWatched' = s.watched

ObsWithinBound(s) == SumOver(s.loading, ObsUrlsWide) <= MaxImageLoads

\* isLoaded(url)
Obs_isLoaded(s, u) == MapHas(s.cache, u) /\ MapGet(s.cache, u).loaded

\* loadImage(url): activeLoads++, img.src = url.
Obs_loadImage(s, u) ==
  [s EXCEPT !.activeLoads = @ + 1, !.loading[u] = @ + 1]

\* processQueue(): take the first url of the Set while a slot is free.
RECURSIVE Obs_processQueue(_)
Obs_processQueue(s) ==
  IF s.activeLoads < OBS_CONCURRENT_LOADS /\ Len(s.preloadQueue) > 0
  THEN Obs_processQueue(
         Obs_loadImage([s EXCEPT !.preloadQueue = Tail(@)], Head(s.preloadQueue)))
  ELSE s

\* preload(url, priority): the state after the call.
Obs_preload(s, u, p, t) ==
  IF MapHas(s.cache, u) /\ MapGet(s.cache, u).loaded THEN s
  ELSE IF MapHas(s.cache, u) /\ MapGet(s.cache, u).loading THEN s
  ELSE LET s1 == [s EXCEPT !.cache = MapSet(@,
                     [url |-> u, loaded |-> FALSE, loading |-> TRUE,
                      error |-> FALSE, timestamp |-> t])]
       IN IF p = "high" THEN Obs_loadImage(s1, u)
          ELSE Obs_processQueue(
                 [s1 EXCEPT !.preloadQueue =
                    IF SeqHas(@, u) THEN @ ELSE Append(@, u)])

\* prioritizeLoad(url)
Obs_prioritizeLoad(s, u, t) ==
  IF Obs_isLoaded(s, u) THEN s
  ELSE Obs_preload(
         [s EXCEPT !.preloadQueue = SelectSeq(@, LAMBDA x : x # u)], u, "high", t)

\* observe(element, url)
Obs_observe(s, e, u) ==
  [s EXCEPT !.dataSrc[e] = u, !.observedElements[u] = e, !.watched = @ \cup {e}]

\* unobserve(element, url)
Obs_unobserve(s, e, u) ==
  [s EXCEPT !.watched = @ \ {e}, !.observedElements[u] = 0]

\* The IntersectionObserver callback for one intersecting entry.
Obs_intersecting(s, e, t) ==
  IF s.dataSrc[e] # 0 THEN Obs_prioritizeLoad(s, s.dataSrc[e], t) ELSE s

\* The completion of a load: activeLoads--, processQueue().
Obs_loadDone(s, u) ==
  Obs_processQueue([s EXCEPT !.loading[u] = @ - 1, !.activeLoads = @ - 1])

\* img.onload
Obs_onload(s, u, t) ==
  Obs_loadDone(
    IF MapHas(s.cache, u)
    THEN [s EXCEPT !.cache = MapSet(@, [MapGet(s.cache, u) EXCEPT
                       !.loaded = TRUE, !.loading = FALSE, !.timestamp = t])]
    ELSE s, u)

\* img.onerror
Obs_onerror(s, u) ==
  Obs_loadDone(
    IF MapHas(s.cache, u)
    THEN [s EXCEPT !.cache = MapSet(@, [MapGet(s.cache, u) EXCEPT
                       !.error = TRUE, !.loading = FALSE])]
    ELSE s, u)

\* cleanup(): drop the expired entries; when still over MAX_CACHE_SIZE, sort
\* the snapshot taken before (expired entries included) and delete its first
\* size - MAX_CACHE_SIZE urls.
Obs_cleanup(s, t) ==
  LET entries == s.cache
      kept == SelectSeq(entries, LAMBDA e : ~(t - e.timestamp > OBS_CACHE_TTL))
  IN IF Len(kept) > OBS_MAX_CACHE_SIZE
     THEN LET sorted == SortByTimestamp(entries)
              toRemove == {sorted[i].url : i \in 1..(Len(kept) - OBS_MAX_CACHE_SIZE)}
          IN [s EXCEPT !.cache = SelectSeq(kept, LAMBDA e : e.url \notin toRemove)]
     ELSE [s EXCEPT !.cache = kept]

\* clear(): activeLoads and the loads in flight are left as they are.
Obs_clear(s) == [s EXCEPT !.cache = <<>>, !.preloadQueue = <<>>]

\* ---- actions

ObsStep(s) ==
  /\ ObsWithinBound(s)
  /\ ObsSet(s)
  /\ UNCHANGED <<clock, notObs>>

ObsPreload(u, p) ==
  /\ driven = "observer"
  /\ ObsStep(Obs_preload(ObsState, u, p, now))

ObsPrioritizeLoad(u) ==
  /\ driven = "observer"
  /\ ObsStep(Obs_prioritizeLoad(ObsState, u, now))

ObsObserve(e, u) ==
  /\ driven = "observer"
  /\ ObsStep(Obs_observe(ObsState, e, u))

ObsUnobserve(e, u) ==
  /\ driven = "observer"
  /\ ObsStep(Obs_unobserve(ObsState, e, u))

ObsIntersecting(e) ==
  /\ driven = "observer"
  /\ e \in oWatched
  /\ ObsStep(Obs_intersecting(ObsState, e, now))

ObsOnload(u) ==
  /\ driven = "observer"
  /\ oLoading[u] > 0
  /\ ObsStep(Obs_onload(ObsState, u, now))

ObsOnerror(u) ==
  /\ driven = "observer"
  /\ oLoading[u] > 0
  /\ ObsStep(Obs_onerror(ObsState, u))

ObsCleanup ==
  /\ driven = "observer"
  /\ ObsStep(Obs_cleanup(ObsState, now))

ObsClear ==
  /\ driven = "observer"
  /\ ObsStep(Obs_clear(ObsState))

\* Date.now() moves on: by a millisecond, or by the TTL.
ObsTick ==
  /\ driven = "observer"
  /\ ticks < MaxTicks
  /\ \E d \in {1, OBS_CACHE_TTL} : now' = now + d
  /\ ticks' = ticks + 1
  /\ UNCHANGED driven
  /\ UNCHANGED <<obsVars, notObs>>

\* ------------------------------------------------------------------ posts
\* PostsCacheService of src/lib/cache.ts; the class of
\* sociala.github.io/src/lib/firebase.ts is the same code.

PostKeys == 1..NumPostKeys
\* posts: 0 is the empty array, the others are non-empty arrays.
PostLists == 0..NumPostLists
\* lastDoc: 0 is null, 1 a document snapshot, 2 the plain object that
\* JSON.parse(JSON.stringify(snapshot)) leaves.
PostCursors == {0, 1}

POSTS_CACHE_TTL == 3 * 60 * 1000
POSTS_STALE_TTL == 10 * 60 * 1000

\* sessionStorage.getItem(STORAGE_KEY): null, a text JSON.parse rejects, or
\* the text of a snapshot (key -> entry; None: no such key).
StorageAbsent == [kind |-> "absent"]
StorageGarbage == [kind |-> "garbage"]
StorageSnapshot(data) == [kind |-> "snapshot", data |-> data]

PostsEmpty == [k \in PostKeys |-> None]

PostsState == [cache |-> pCache, storage |-> pStorage, threw |-> pThrew]

PostsSet_(s) ==
  /\ pCache' = s.cache
  /\ pStorage' = s.storage
  /\ pThrew' = s.threw

\* JSON.parse(JSON.stringify(entry)): a document snapshot comes back as a
\* plain object.
Posts_json(e) ==
  IF e = None THEN None ELSE [e EXCEPT !.lastDoc = IF @ = 0 THEN 0 ELSE 2]

\* Faulty variant of Posts_restore: the restored entry keeps the stale flag of
\* the snapshot.
Posts_restoreAsStored(e, t) ==
  IF e # None /\ e.posts # 0 /\ t - e.timestamp < POSTS_STALE_TTL
  THEN e
  ELSE None

\* The entry initFromStorage restores from a parsed snapshot entry.
Posts_restore(e, t) ==
  IF e # None /\ e.posts # 0 /\ t - e.timestamp < POSTS_STALE_TTL
  THEN [e EXCEPT !.stale = t - e.timestamp > POSTS_CACHE_TTL]
  ELSE None

\* The constructor: a new instance, whose cache initFromStorage fills.
\* available = FALSE: sessionStorage throws on every access (getItem throws,
\* and so does the removeItem of the catch block, which is swallowed).
Posts_initFromStorage(s, available, t) ==
  IF ~available THEN [s EXCEPT !.cache = PostsEmpty, !.threw = FALSE]
  ELSE IF s.storage.kind = "absent"
       THEN [s EXCEPT !.cache = PostsEmpty, !.threw = FALSE]
  ELSE IF s.storage.kind = "garbage"
       THEN [s EXCEPT !.cache = PostsEmpty, !.storage = StorageAbsent, !.threw = FALSE]
  ELSE [s EXCEPT !.cache = [k \in PostKeys |-> Posts_restore(s.storage.data[k], t)],
                 !.threw = FALSE]

\* Faulty variant of Posts_persistToStorage: the entries are merged into the
\* snapshot already stored.
Posts_persistMerged(s, written) ==
  IF written
  THEN [s EXCEPT !.storage = StorageSnapshot(
          [k \in PostKeys |->
             IF s.cache[k] # None /\ ~s.cache[k].stale
             THEN Posts_json(s.cache[k])
             ELSE IF s.storage.kind = "snapshot" THEN s.storage.data[k] ELSE None])]
  ELSE s

\* Faulty variant of Posts_persistToStorage: no try/catch around setItem.
Posts_persistUncaught(s, written) ==
  IF written
  THEN [s EXCEPT !.storage = StorageSnapshot(
          [k \in PostKeys |->
             IF s.cache[k] # None /\ ~s.cache[k].stale
             THEN Posts_json(s.cache[k]) ELSE None])]
  ELSE [s EXCEPT !.threw = TRUE]

\* persistToStorage(): the entries that are not stale, as JSON.
\* written = FALSE: setItem throws (quota, storage disabled); caught.
Posts_persistToStorage(s, written) ==
  IF written
  THEN [s EXCEPT !.storage = StorageSnapshot(
          [k \in PostKeys |->
             IF s.cache[k] # None /\ ~s.cache[k].stale
             THEN Posts_json(s.cache[k]) ELSE None])]
  ELSE s

\* The visibilitychange listener, document hidden.
Posts_hidden(s, written) ==
  Posts_persistToStorage([s EXCEPT !.threw = FALSE], written)

\* The visibilitychange listener, document visible again.
Posts_visible(s, t) ==
  [s EXCEPT !.cache = [k \in PostKeys |->
                         IF s.cache[k] # None /\ t - s.cache[k].timestamp > POSTS_CACHE_TTL
                         THEN [s.cache[k] EXCEPT !.stale = TRUE]
                         ELSE s.cache[k]],
            !.threw = FALSE]

\* Faulty variant of Posts_getResult: an entry needs a refresh once it is
\* CACHE_TTL old.
Posts_getResultAtTtl(s, k, t) ==
  LET entry == s.cache[k]
  IN IF entry = None THEN None
     ELSE IF t - entry.timestamp > POSTS_STALE_TTL THEN None
     ELSE IF t - entry.timestamp >= POSTS_CACHE_TTL \/ entry.stale
     THEN [posts |-> entry.posts, lastDoc |-> entry.lastDoc, needsRefresh |-> TRUE]
     ELSE [posts |-> entry.posts, lastDoc |-> entry.lastDoc, needsRefresh |-> FALSE]

\* get(key): what it returns (None: null).
Posts_getResult(s, k, t) ==
  LET entry == s.cache[k]
  IN IF entry = None THEN None
     ELSE IF t - entry.timestamp > POSTS_STALE_TTL THEN None
     ELSE IF t - entry.timestamp > POSTS_CACHE_TTL \/ entry.stale
     THEN [posts |-> entry.posts, lastDoc |-> entry.lastDoc, needsRefresh |-> TRUE]
     ELSE [posts |-> entry.posts, lastDoc |-> entry.lastDoc, needsRefresh |-> FALSE]

\* get(key): the state it leaves.
Posts_get(s, k, t) ==
  IF s.cache[k] # None /\ t - s.cache[k].timestamp > POSTS_STALE_TTL
  THEN [s EXCEPT !.cache[k] = None, !.threw = FALSE]
  ELSE [s EXCEPT !.threw = FALSE]

\* set(key, posts, lastDoc)
Posts_set(s, k, posts, lastDoc, written, t) ==
  Posts_persistToStorage(
    [s EXCEPT !.cache[k] = [posts |-> posts, lastDoc |-> lastDoc,
                            timestamp |-> t, stale |-> FALSE],
              !.threw = FALSE],
    written)

\* clear(); available = FALSE: removeItem throws and is swallowed.
Posts_clear(s, available) ==
  [s EXCEPT !.cache = PostsEmpty,
            !.storage = IF available THEN StorageAbsent ELSE @,
            !.threw = FALSE]

\* invalidate(key)
Posts_invalidate(s, k) == [s EXCEPT !.cache[k] = None, !.threw = FALSE]

\* ---- actions

PostsSet(k, posts, lastDoc, written) ==
  /\ driven = "posts"
  /\ PostsSet_(Posts_set(PostsState, k, posts, lastDoc, written, now))
  /\ UNCHANGED <<clock, notPosts>>

PostsGet(k) ==
  /\ driven = "posts"
  /\ PostsSet_(Posts_get(PostsState, k, now))
  /\ UNCHANGED <<clock, notPosts>>

PostsInvalidate(k) ==
  /\ driven = "posts"
  /\ PostsSet_(Posts_invalidate(PostsState, k))
  /\ UNCHANGED <<clock, notPosts>>

PostsClear(available) ==
  /\ driven = "posts"
  /\ PostsSet_(Posts_clear(PostsState, available))
  /\ UNCHANGED <<clock, notPosts>>

PostsHidden(written) ==
  /\ driven = "posts"
  /\ PostsSet_(Posts_hidden(PostsState, written))
  /\ UNCHANGED <<clock, notPosts>>

PostsVisible ==
  /\ driven = "posts"
  /\ PostsSet_(Posts_visible(PostsState, now))
  /\ UNCHANGED <<clock, notPosts>>

\* The tab is reloaded: the module is evaluated again and a new instance is
\* constructed over the sessionStorage the tab has kept.
PostsReload(available) ==
  /\ driven = "posts"
  /\ PostsSet_(Posts_initFromStorage(PostsState, available, now))
  /\ UNCHANGED <<clock, notPosts>>

\* Another script of the page leaves a text under STORAGE_KEY that is not JSON.
PostsStorageGarbled ==
  /\ driven = "posts"
  /\ pStorage' = StorageGarbage
  /\ UNCHANGED <<pCache, pThrew, clock, notPosts>>

\* Date.now() moves on: by a millisecond, by CACHE_TTL or by STALE_TTL.
PostsTick ==
  /\ driven = "posts"
  /\ ticks < MaxTicks
  /\ \E d \in {1, POSTS_CACHE_TTL, POSTS_STALE_TTL} : now' = now + d
  /\ ticks' = ticks + 1
  /\ UNCHANGED driven
  /\ UNCHANGED <<postsVars, notPosts>>

\* ------------------------------------------------------------------ LazyVideo
\* The LazyVideo component of unnamed/part_009, mounted with its video element.

LazyInit ==
  /\ lvMuted = FALSE
  /\ lvIsMuted = FALSE
  /\ lvVisible = FALSE
  /\ lvUserPaused = FALSE
  /\ lvPaused = TRUE
  /\ lvPreload = "none"
  /\ lvAutoPlay = 0
  /\ lvTapPlay = 0
  /\ lvMutedPlay = 0
  /\ lvUnlock = TRUE
  /\ lvFellBack = FALSE

notLazy == <<clock, videoVars, imageVars, obsVars, postsVars, issued, navVars, fetchVars>>

\* tryPlay(): video.muted = false, then play().
LazyTryPlay ==
  IF lvUserPaused
  THEN UNCHANGED <<lvMuted, lvAutoPlay>>
  ELSE /\ lvAutoPlay < MaxPlays
       /\ lvMuted' = FALSE
       /\ lvAutoPlay' = lvAutoPlay + 1

\* The callback of playObserver.
LazyPlayObserver(isIntersecting) ==
  /\ driven = "lazyvideo"
  /\ lvVisible' = isIntersecting
  /\ IF isIntersecting
     THEN /\ lvPreload' = "auto"
          /\ LazyTryPlay
          /\ UNCHANGED lvPaused
     ELSE /\ lvPaused' = TRUE
          /\ lvPreload' = "metadata"
          /\ UNCHANGED <<lvMuted, lvAutoPlay>>
  /\ UNCHANGED <<lvIsMuted, lvUserPaused, lvTapPlay, lvMutedPlay, lvUnlock, lvFellBack>>
  /\ UNCHANGED notLazy

\* handleCanPlay (isLoaded only shows the controls).
LazyCanPlay ==
  /\ driven = "lazyvideo"
  /\ lvPreload # "none"
  /\ IF lvVisible THEN LazyTryPlay ELSE UNCHANGED <<lvMuted, lvAutoPlay>>
  /\ UNCHANGED <<lvIsMuted, lvVisible, lvUserPaused, lvPaused, lvPreload,
                 lvTapPlay, lvMutedPlay, lvUnlock, lvFellBack>>
  /\ UNCHANGED notLazy

\* The play() of tryPlay resolves: setIsMuted(false).
LazyAutoPlayResolved ==
  /\ driven = "lazyvideo"
  /\ lvAutoPlay > 0
  /\ lvAutoPlay' = lvAutoPlay - 1
  /\ lvPaused' = FALSE
  /\ lvIsMuted' = FALSE
  /\ UNCHANGED <<lvMuted, lvVisible, lvUserPaused, lvPreload, lvTapPlay,
                 lvMutedPlay, lvUnlock, lvFellBack>>
  /\ UNCHANGED notLazy

\* The play() of tryPlay is rejected: video.muted = true, setIsMuted(true),
\* play() again.
LazyAutoPlayRejected ==
  /\ driven = "lazyvideo"
  /\ lvAutoPlay > 0
  /\ lvMutedPlay < MaxPlays
  /\ lvAutoPlay' = lvAutoPlay - 1
  /\ lvMuted' = TRUE
  /\ lvIsMuted' = TRUE
  /\ lvMutedPlay' = lvMutedPlay + 1
  /\ lvFellBack' = TRUE
  /\ UNCHANGED <<lvVisible, lvUserPaused, lvPaused, lvPreload, lvTapPlay, lvUnlock>>
  /\ UNCHANGED notLazy

\* The play() of handleContainerClick resolves (no handler), or is rejected:
\* video.muted = true, setIsMuted(true), play() again.
LazyTapPlaySettled(resolved) ==
  /\ driven = "lazyvideo"
  /\ lvTapPlay > 0
  /\ lvTapPlay' = lvTapPlay - 1
  /\ IF resolved
     THEN /\ lvPaused' = FALSE
          /\ UNCHANGED <<lvMuted, lvIsMuted, lvMutedPlay, lvFellBack>>
     ELSE /\ lvMutedPlay < MaxPlays
          /\ lvMuted' = TRUE
          /\ lvIsMuted' = TRUE
          /\ lvMutedPlay' = lvMutedPlay + 1
          /\ lvFellBack' = TRUE
          /\ UNCHANGED lvPaused
  /\ UNCHANGED <<lvVisible, lvUserPaused, lvPreload, lvAutoPlay, lvUnlock>>
  /\ UNCHANGED notLazy

\* The play() of a muted retry settles; its rejection is swallowed.
LazyMutedPlaySettled(resolved) ==
  /\ driven = "lazyvideo"
  /\ lvMutedPlay > 0
  /\ lvMutedPlay' = lvMutedPlay - 1
  /\ lvPaused' = IF resolved THEN FALSE ELSE lvPaused
  /\ UNCHANGED <<lvMuted, lvIsMuted, lvVisible, lvUserPaused, lvPreload,
                 lvAutoPlay, lvTapPlay, lvUnlock, lvFellBack>>
  /\ UNCHANGED notLazy

\* The first click or touchstart anywhere on the page (once-only listener).
LazyUnlock ==
  /\ driven = "lazyvideo"
  /\ lvUnlock
  /\ lvUnlock' = FALSE
  /\ IF lvMuted /\ lvVisible /\ ~lvUserPaused
     THEN lvMuted' = FALSE /\ lvIsMuted' = FALSE
     ELSE UNCHANGED <<lvMuted, lvIsMuted>>
  /\ lvFellBack' = FALSE
  /\ UNCHANGED <<lvVisible, lvUserPaused, lvPaused, lvPreload, lvAutoPlay,
                 lvTapPlay, lvMutedPlay>>
  /\ UNCHANGED notLazy

\* handleContainerClick, outside the mute button (isPlaying follows the
\* play and pause events of the element).
LazyContainerClick ==
  /\ driven = "lazyvideo"
  /\ IF ~lvPaused
     THEN /\ lvPaused' = TRUE
          /\ lvUserPaused' = TRUE
          /\ UNCHANGED <<lvMuted, lvIsMuted, lvTapPlay>>
     ELSE /\ lvTapPlay < MaxPlays
          /\ lvUserPaused' = FALSE
          /\ lvMuted' = FALSE
          /\ lvIsMuted' = FALSE
          /\ lvTapPlay' = lvTapPlay + 1
          /\ UNCHANGED lvPaused
  /\ lvFellBack' = FALSE
  /\ UNCHANGED <<lvVisible, lvPreload, lvAutoPlay, lvMutedPlay, lvUnlock>>
  /\ UNCHANGED notLazy

\* toggleMute
LazyToggleMute ==
  /\ driven = "lazyvideo"
  /\ lvMuted' = ~lvIsMuted
  /\ lvIsMuted' = ~lvIsMuted
  /\ lvFellBack' = FALSE
  /\ UNCHANGED <<lvVisible, lvUserPaused, lvPaused, lvPreload, lvAutoPlay,
                 lvTapPlay, lvMutedPlay, lvUnlock>>
  /\ UNCHANGED notLazy

\* ------------------------------------------------------------------ CategoryNav
\* preloadImage / preloadImages of sociala.github.io/src/components/layout/
\* CategoryNav.tsx.

NavUrls == 1..NumNavUrls
NAV_BATCH == 3

NavInit ==
  /\ nvCache = {}
  /\ nvLoading = [u \in NavUrls |-> 0]
  /\ nvTimers = <<>>
  /\ nvCalled = FALSE

notNav == <<clock, videoVars, imageVars, obsVars, postsVars, issued, lazyVars, fetchVars>>

\* batch.forEach(url => preloadImage(url)): the loads in flight afterwards.
RECURSIVE Nav_preloadBatch(_, _, _)
Nav_preloadBatch(loading, cache, batch) ==
  IF batch = <<>> THEN loading
  ELSE Nav_preloadBatch(
         IF Head(batch) \in cache THEN loading
         ELSE [loading EXCEPT ![Head(batch)] = @ + 1],
         cache, Tail(batch))

\* preloadImages(urls), with the timers that are pending besides.
Nav_preloadImages(urls, timers) ==
  LET uncached == SelectSeq(urls, LAMBDA u : u \notin nvCache)
      batch == SubSeq(uncached, 1, IF Len(uncached) < NAV_BATCH
                                   THEN Len(uncached) ELSE NAV_BATCH)
  IN /\ nvLoading' = Nav_preloadBatch(nvLoading, nvCache, batch)
     /\ nvTimers' = IF Len(uncached) > NAV_BATCH
                    THEN Append(timers, SubSeq(uncached, NAV_BATCH + 1, Len(uncached)))
                    ELSE timers
     /\ UNCHANGED nvCache

\* The page calls preloadImages(urls), once, with the first n urls.
NavPreloadImages(n) ==
  /\ driven = "nav"
  /\ ~nvCalled
  /\ nvCalled' = TRUE
  /\ Nav_preloadImages([i \in 1..n |-> i], nvTimers)
  /\ UNCHANGED notNav

\* A setTimeout callback runs, 200 ms after it was set.
NavTimer ==
  /\ driven = "nav"
  /\ nvTimers # <<>>
  /\ Nav_preloadImages(Head(nvTimers), Tail(nvTimers))
  /\ UNCHANGED nvCalled
  /\ UNCHANGED notNav

\* img.onload of a load of preloadImage
NavOnload(u) ==
  /\ driven = "nav"
  /\ nvLoading[u] > 0
  /\ nvLoading' = [nvLoading EXCEPT ![u] = @ - 1]
  /\ nvCache' = nvCache \cup {u}
  /\ UNCHANGED <<nvTimers, nvCalled>>
  /\ UNCHANGED notNav

\* img.onerror of a load of preloadImage
NavOnerror(u) ==
  /\ driven = "nav"
  /\ nvLoading[u] > 0
  /\ nvLoading' = [nvLoading EXCEPT ![u] = @ - 1]
  /\ UNCHANGED <<nvCache, nvTimers, nvCalled>>
  /\ UNCHANGED notNav

\* ------------------------------------------------------------------ fetchPosts
\* fetchPosts of src/services/postsService.ts and its module-level postsCache,
\* for one category. A page of posts is the number of posts in it (the
\* posts of a category are the same on every query); a cursor is 0 for null
\* and i + 1 for snapshot.docs[i].

\* Tunable configuration, checked at a small page (the source sets
\* POSTS_PER_PAGE = 15).
POSTS_PER_PAGE == 3
FETCH_CACHE_TTL == 2 * 60 * 1000

Min(a, b) == IF a < b THEN a ELSE b

FetchInit ==
  /\ fpCache = None
  /\ fpResult = None
  /\ fpSource = None

notFetch == <<videoVars, imageVars, obsVars, postsVars, issued, lazyVars, navVars>>

\* The result of the query path: docs documents come back, filtered of
\* them are active posts of the category.
Fetch_queried(docs, filtered) ==
  [posts |-> Min(filtered, POSTS_PER_PAGE),
   lastDoc |-> Min(POSTS_PER_PAGE - 1, docs - 1) + 1,
   hasMore |-> filtered > POSTS_PER_PAGE,
   hit |-> FALSE]

\* The result of the cache-hit path.
Fetch_cached(cached) ==
  [posts |-> cached.posts,
   lastDoc |-> cached.lastDoc,
   hasMore |-> cached.posts >= POSTS_PER_PAGE,
   hit |-> TRUE]

\* fetchPosts(category, lastDoc): cursor tells whether lastDoc is given.
FetchPosts(cursor, docs, filtered) ==
  /\ driven = "fetch"
  /\ IF ~cursor /\ fpCache # None /\ now - fpCache.timestamp < FETCH_CACHE_TTL
     THEN /\ fpResult' = Fetch_cached(fpCache)
          /\ UNCHANGED <<fpCache, fpSource>>
     ELSE /\ fpResult' = Fetch_queried(docs, filtered)
          /\ IF ~cursor
             THEN /\ fpCache' = [posts |-> Fetch_queried(docs, filtered).posts,
                                 lastDoc |-> Fetch_queried(docs, filtered).lastDoc,
                                 timestamp |-> now]
                  /\ fpSource' = Fetch_queried(docs, filtered)
             ELSE UNCHANGED <<fpCache, fpSource>>
  /\ UNCHANGED <<clock, notFetch>>

\* The visibilitychange listener, document visible again: entries older than
\* CACHE_TTL are deleted.
FetchCleanup ==
  /\ driven = "fetch"
  /\ fpCache' = IF fpCache # None /\ now - fpCache.timestamp > FETCH_CACHE_TTL
                THEN None ELSE fpCache
  /\ UNCHANGED <<fpResult, fpSource>>
  /\ UNCHANGED <<clock, notFetch>>

\* postsCache.clear()
FetchClear ==
  /\ driven = "fetch"
  /\ fpCache' = None
  /\ UNCHANGED <<fpResult, fpSource>>
  /\ UNCHANGED <<clock, notFetch>>

\* Date.now() moves on: by a millisecond, or by CACHE_TTL.
FetchTick ==
  /\ driven = "fetch"
  /\ ticks < MaxTicks
  /\ \E d \in {1, FETCH_CACHE_TTL} : now' = now + d
  /\ ticks' = ticks + 1
  /\ UNCHANGED driven
  /\ UNCHANGED <<fetchVars, notFetch>>

\* ------------------------------------------------------------------ specifications

VideoInit ==
  /\ vCache = <<>>
  /\ vLoadPromises = {}
  /\ vPreloadQueue = <<>>
  /\ vActiveLoads = 0
  /\ vCurrentCacheSize = 0
  /\ vFetching = [u \in VideoUrls |-> 0]
  /\ vAdmitting = [u \in VideoUrls |-> 0]

ImageInit ==
  /\ iCache = <<>>
  /\ iLoadPromises = {}
  /\ iPreloadQueue = <<>>
  /\ iActiveLoads = 0
  /\ iLoading = [u \in ImageUrlsWide |-> 0]

ObsInit ==
  /\ oCache = <<>>
  /\ oPreloadQueue = <<>>
  /\ oActiveLoads = 0
  /\ oLoading = [u \in ObsUrlsWide |-> 0]
  /\ oObservedElements = [u \in ObsUrls |-> 0]
  /\ oDataSrc = [e \in ObsElements |-> 0]
  /\ oWatched = {}

\* A new tab: sessionStorage is empty when the instance is constructed.
PostsInit ==
  /\ pCache = PostsEmpty
  /\ pStorage = StorageAbsent
  /\ pThrew = FALSE

vars == <<clock, videoVars, imageVars, obsVars, postsVars, others>>

Services == {"video", "image", "observer", "posts", "lazyvideo", "nav", "fetch"}

Init ==
  /\ now = 0
  /\ ticks = 0
  /\ driven \in Services
  /\ issued = 0
  /\ LazyInit
  /\ NavInit
  /\ FetchInit
  /\ VideoInit
  /\ ImageInit
  /\ ObsInit
  /\ PostsInit

VideoNextNoClear ==
  \/ \E u \in VideoUrls, p \in Priorities : VideoPreload(u, p)
  \/ \E u \in VideoUrls : VideoPrioritize(u)
  \/ \E u \in VideoUrls : VideoIsCached(u)
  \/ \E u \in VideoUrls : VideoGetCachedUrl(u)
  \/ VideoCleanup
  \/ \E u \in VideoUrls : VideoFetchFailed(u)
  \/ \E u \in VideoUrls : VideoBlobReady(u)
  \/ \E u \in VideoUrls : VideoAdmit(u)
  \/ VideoTick

VideoNext ==
  \/ VideoNextNoClear
  \/ VideoClear

\* Scheduling: every handler of the image service except clear(), with the
\* clock standing still.
ImageNextNoClear ==
  \/ \E u \in ImageUrls, p \in Priorities : ImagePreload(u, p)
  \/ \E urls \in ImageBatches, idx \in SUBSET (0..(MaxBatch - 1)) :
        ImagePreloadBatch(urls, idx)
  \/ \E u \in ImageUrls : ImagePrioritize(u)
  \/ ImageCleanup
  \/ \E u \in ImageUrls : ImageOnload(u)
  \/ \E u \in ImageUrls : ImageOnerror(u)

ImageNext ==
  \/ ImageNextNoClear
  \/ ImageClear

\* Promotion: single preloads, prioritize() and completions, on one URL more;
\* only the loads of the URLs in ImageFlakyUrls fail.
ImagePromotionNext ==
  \/ \E u \in ImageUrlsWide, p \in Priorities : ImagePreload(u, p)
  \/ \E u \in ImageUrlsWide : ImagePrioritize(u)
  \/ \E u \in ImageUrlsWide : ImageOnload(u)
  \/ \E u \in ImageFlakyUrls : ImageOnerror(u)

\* Ageing: immediate loads, completions and cleanup() while the clock runs.
ImageExpiryNext ==
  \/ \E u \in ImageUrls : ImagePreload(u, "high")
  \/ ImageCleanup
  \/ \E u \in ImageUrls : ImageOnload(u)
  \/ \E u \in ImageUrls : ImageOnerror(u)
  \/ ImageTick

ObsNext ==
  \/ \E u \in ObsUrls, p \in Priorities : ObsPreload(u, p)
  \/ \E u \in ObsUrls : ObsPrioritizeLoad(u)
  \/ \E e \in ObsElements, u \in ObsUrls : ObsObserve(e, u)
  \/ \E e \in ObsElements, u \in ObsUrls : ObsUnobserve(e, u)
  \/ \E e \in ObsElements : ObsIntersecting(e)
  \/ \E u \in ObsUrls : ObsOnload(u)
  \/ \E u \in ObsUrls : ObsOnerror(u)
  \/ ObsCleanup
  \/ ObsClear

\* Ageing: immediate loads, their completion and cleanup() while the clock runs.
ObsExpiryNext ==
  \/ \E u \in ObsUrlsWide : ObsPreload(u, "high")
  \/ \E u \in ObsUrlsWide : ObsOnload(u)
  \/ ObsCleanup
  \/ ObsTick

PostsNext ==
  \/ \E k \in PostKeys, posts \in PostLists, lastDoc \in PostCursors, written \in BOOLEAN :
        PostsSet(k, posts, lastDoc, written)
  \/ \E k \in PostKeys : PostsGet(k)
  \/ \E k \in PostKeys : PostsInvalidate(k)
  \/ \E available \in BOOLEAN : PostsClear(available)
  \/ \E written \in BOOLEAN : PostsHidden(written)
  \/ PostsVisible
  \/ \E available \in BOOLEAN : PostsReload(available)
  \/ PostsStorageGarbled
  \/ PostsTick

\* The services share nothing: a behaviour drives one of them (driven) and
\* leaves the others as constructed.
LazyNext ==
  \/ \E isIntersecting \in BOOLEAN : LazyPlayObserver(isIntersecting)
  \/ LazyCanPlay
  \/ LazyAutoPlayResolved
  \/ LazyAutoPlayRejected
  \/ \E resolved \in BOOLEAN : LazyTapPlaySettled(resolved)
  \/ \E resolved \in BOOLEAN : LazyMutedPlaySettled(resolved)
  \/ LazyUnlock
  \/ LazyContainerClick
  \/ LazyToggleMute

NavNext ==
  \/ \E n \in 0..NumNavUrls : NavPreloadImages(n)
  \/ NavTimer
  \/ \E u \in NavUrls : NavOnload(u)
  \/ \E u \in NavUrls : NavOnerror(u)

FetchNext ==
  \/ \E cursor \in BOOLEAN, docs \in 0..MaxFetched :
        \E filtered \in 0..docs : FetchPosts(cursor, docs, filtered)
  \/ FetchCleanup
  \/ FetchClear
  \/ FetchTick

MediaNext ==
  \/ VideoNext
  \/ ImageNext

ExpiryNext ==
  \/ VideoNext
  \/ ImageExpiryNext

PromotionNext ==
  \/ VideoNext
  \/ ImagePromotionNext

InitVideo == Init /\ driven = "video"
InitImage == Init /\ driven = "image"
InitObserver == Init /\ driven = "observer"
InitMedia == Init /\ driven \in {"video", "image"}
InitPosts == Init /\ driven = "posts"
InitLazy == Init /\ driven = "lazyvideo"
InitNav == Init /\ driven = "nav"
InitFetch == Init /\ driven = "fetch"

SpecVideo == InitVideo /\ [][VideoNext]_vars
SpecVideoNoClear == InitVideo /\ [][VideoNextNoClear]_vars
SpecImage == InitImage /\ [][ImageNext]_vars
SpecImageNoClear == InitImage /\ [][ImageNextNoClear]_vars
SpecObserver == InitObserver /\ [][ObsNext]_vars
SpecImageExpiry == InitImage /\ [][ImageExpiryNext]_vars
SpecObserverExpiry == InitObserver /\ [][ObsExpiryNext]_vars
SpecPosts == InitPosts /\ [][PostsNext]_vars
SpecLazy == InitLazy /\ [][LazyNext]_vars
SpecNav == InitNav /\ [][NavNext]_vars
SpecFetch == InitFetch /\ [][FetchNext]_vars
SpecMedia == InitMedia /\ [][MediaNext]_vars
SpecExpiry == InitMedia /\ [][ExpiryNext]_vars
SpecPromotion == InitMedia /\ [][PromotionNext]_vars

\* ------------------------------------------------------------------ properties

\* loadVideo calls of url u that have not reached their finally block.
VideoInFlight(u) == vFetching[u] + vAdmitting[u]

\* Every slot of the video scheduler is taken.
VideoSlotsFull == vActiveLoads >= VIDEO_MAX_CONCURRENT_LOADS

\* The queued requests of one priority.
VideoQueueAll(p) ==
  \A i \in 1..Len(vPreloadQueue) : vPreloadQueue[i].priority = p

\* The place of url u in a queue of requests (0: not queued).
RECURSIVE VideoQueueIndex(_, _, _)
VideoQueueIndex(q, u, i) ==
  IF i > Len(q) THEN 0
  ELSE IF q[i].url = u THEN i
  ELSE VideoQueueIndex(q, u, i + 1)

\* How often url u occurs in a queue of requests.
VideoQueueCount(q, u) == Cardinality({i \in 1..Len(q) : q[i].url = u})

\* Image loads in flight.
ImageInFlight == SumOver(iLoading, ImageUrlsWide)

\* ---- C1
\* C1: in ImageCacheService, whatever preload, preloadBatch, prioritize and
\* load completions have run (no clear()), no URL has two loads in flight at
\* once.
ImageOneLoadPerUrl == \A u \in ImageUrls : iLoading[u] <= 1

\* ---- C2
\* C2: in VideoCacheService, whatever preload, prioritize, cleanup and fetch
\* completions have run (no clear()), no URL has two fetches in flight at
\* once, and no URL is in preloadQueue while a fetch of it is in flight.
VideoOneFetchPerUrl ==
  \A u \in VideoUrls :
    /\ VideoInFlight(u) <= 1
    /\ ~(Video_queued(vPreloadQueue, u) /\ VideoInFlight(u) > 0)
    /\ VideoQueueCount(vPreloadQueue, u) <= 1

\* A fetch is in flight and registered, every slot is taken, another URL
\* waits and a third is resident.
VideoOneFetchPerUrlWitness ==
  /\ driven = "video"
  /\ VideoSlotsFull
  /\ Len(vPreloadQueue) > 0
  /\ Len(vCache) > 0
  /\ \E u \in VideoUrls : VideoInFlight(u) = 1 /\ u \in vLoadPromises

\* ---- C3
\* C3: every preload() of a URL that is not resident, on the image and on
\* the video service, hands its caller the promise of that URL's fetch
\* (the one in flight or the one the call starts), never an already
\* settled value.
PreloadFutureFollowsFetch ==
  [][/\ \A u \in VideoUrls, p \in Priorities :
          (VideoPreload(u, p) /\ ~Video_isCached(VideoState, u, now))
          => Video_preloadResult(VideoState, u, p, now) \in {"joined", "started"}
     /\ \A u \in ImageUrls, p \in Priorities :
          (ImagePreload(u, p) /\ ~Image_isLoaded(ImageState, u))
          => Image_preloadResult(ImageState, u, p) \in {"joined", "started"}
    ]_vars

\* ---- C4
\* C4: in ImageCacheService the loads in flight, and the activeLoads
\* counter, never exceed CONCURRENT_LOADS.
ImageConcurrencyBound ==
  /\ ImageInFlight <= IMAGE_CONCURRENT_LOADS
  /\ iActiveLoads <= IMAGE_CONCURRENT_LOADS

\* ---- C5
\* C5: in VideoCacheService the fetches in flight are as many as activeLoads
\* says, and activeLoads stays between 0 and MAX_CONCURRENT_LOADS, clear()
\* included.
VideoConcurrencyBound ==
  /\ vActiveLoads \in 0..VIDEO_MAX_CONCURRENT_LOADS
  /\ vActiveLoads = SumOver([u \in VideoUrls |-> VideoInFlight(u)], VideoUrls)

\* Every slot is taken by a fetch that clear() has forgotten, and a request
\* made since waits in the queue.
VideoConcurrencyBoundWitness ==
  /\ driven = "video"
  /\ vActiveLoads = VIDEO_MAX_CONCURRENT_LOADS
  /\ vLoadPromises = {}
  /\ Len(vPreloadQueue) > 0

\* ---- C6
\* C6: with every slot taken and only 'low' requests queued, preload(h, 'high')
\* of a new URL h puts h in front of all of them and leaves the fetches in
\* flight as they are; and a queued 'low' request is dispatched only by a
\* step that leaves no request queued as 'high' before it in the queue.
VideoHighBeforeQueuedLow ==
  [][/\ \A h \in VideoUrls :
          ( /\ VideoPreload(h, "high")
            /\ VideoSlotsFull
            /\ Len(vPreloadQueue) > 0
            /\ VideoQueueAll("low")
            /\ ~Video_isCached(VideoState, h, now)
            /\ h \notin vLoadPromises
            /\ ~Video_queued(vPreloadQueue, h) )
          => /\ vPreloadQueue' = <<[url |-> h, priority |-> "high"]>> \o vPreloadQueue
             /\ vFetching' = vFetching
             /\ vAdmitting' = vAdmitting
             /\ vActiveLoads' = vActiveLoads
             /\ vLoadPromises' = vLoadPromises
     /\ \A i \in 1..Len(vPreloadQueue) :
          ( /\ vPreloadQueue[i].priority = "low"
            /\ vFetching'[vPreloadQueue[i].url] > vFetching[vPreloadQueue[i].url] )
          => \A j \in 1..Len(vPreloadQueue) :
               vPreloadQueue[j].priority = "high"
               => ~Video_queued(vPreloadQueue', vPreloadQueue[j].url)
    ]_vars

\* Every slot is taken and a 'high' request stands in front of the 'low'
\* requests that wait.
VideoHighBeforeQueuedLowWitness ==
  /\ driven = "video"
  /\ VideoSlotsFull
  /\ Len(vPreloadQueue) >= 2
  /\ Head(vPreloadQueue).priority = "high"
  /\ \A i \in 2..Len(vPreloadQueue) : vPreloadQueue[i].priority = "low"
  /\ \A u \in VideoUrls : VideoInFlight(u) <= 1

\* ---- C7
\* C7: in VideoCacheService requests of one priority are dispatched in the
\* order they were enqueued: the queue is served from its head, and a request
\* that enters the queue never stands in front of a request of its priority
\* that was waiting already.
VideoFifoWithinTier ==
  [][/\ \A i, j \in 1..Len(vPreloadQueue') :
          ( /\ i < j
            /\ vPreloadQueue'[i].priority = vPreloadQueue'[j].priority
            /\ \E k \in 1..Len(vPreloadQueue) : vPreloadQueue[k] = vPreloadQueue'[j] )
          => \E k \in 1..Len(vPreloadQueue) : vPreloadQueue[k] = vPreloadQueue'[i]
     /\ \A i, j \in 1..Len(vPreloadQueue) :
          ( /\ i < j
            /\ vFetching'[vPreloadQueue[j].url] > vFetching[vPreloadQueue[j].url] )
          => ~Video_queued(vPreloadQueue', vPreloadQueue[i].url)
    ]_vars

\* ---- C8
\* C8: with every slot taken and x queued before y, both 'low', prioritize(y)
\* of the video service moves y to the head of the queue, where it stands
\* once, in front of x, and no fetch of x starts; prioritize(y) of the image
\* service starts the load of y at once, takes y out of the queue and leaves
\* x waiting; and both queues are served from the head.
PromotionOvertakes ==
  [][/\ \A i, j \in 1..Len(vPreloadQueue) :
          ( /\ i < j
            /\ VideoSlotsFull
            /\ vPreloadQueue[i].priority = "low"
            /\ vPreloadQueue[j].priority = "low"
            /\ VideoPrioritize(vPreloadQueue[j].url) )
          => /\ Head(vPreloadQueue') = [url |-> vPreloadQueue[j].url, priority |-> "high"]
             /\ VideoQueueCount(vPreloadQueue', vPreloadQueue[j].url) = 1
             /\ VideoQueueIndex(vPreloadQueue', vPreloadQueue[i].url, 1) > 1
             /\ vFetching' = vFetching
     /\ \A i, j \in 1..Len(vPreloadQueue) :
          ( /\ i < j
            /\ vFetching'[vPreloadQueue[j].url] > vFetching[vPreloadQueue[j].url] )
          => ~Video_queued(vPreloadQueue', vPreloadQueue[i].url)
     /\ \A i, j \in 1..Len(iPreloadQueue) :
          ( /\ i < j
            /\ iPreloadQueue[i] # iPreloadQueue[j]
            /\ iActiveLoads >= IMAGE_CONCURRENT_LOADS
            /\ ~Image_isLoaded(ImageState, iPreloadQueue[j])
            /\ ImagePrioritize(iPreloadQueue[j]) )
          => /\ iLoading'[iPreloadQueue[j]] > 0
             /\ ~SeqHas(iPreloadQueue', iPreloadQueue[j])
             /\ SeqHas(iPreloadQueue', iPreloadQueue[i])
             /\ iLoading'[iPreloadQueue[i]] = iLoading[iPreloadQueue[i]]
    ]_vars

\* Every slot of the video service is taken, x and y wait as 'low' with x
\* first, and prioritize(y) is about to put y at the head.
PromotionOvertakesWitness ==
  /\ driven = "video"
  /\ VideoSlotsFull
  /\ VideoQueueAll("low")
  /\ Len(vPreloadQueue) = 2
  /\ \A u \in VideoUrls : ~Video_queued(vPreloadQueue, u) \/ VideoInFlight(u) = 0
  /\ ENABLED ( /\ VideoPrioritize(vPreloadQueue[2].url)
               /\ Len(vPreloadQueue') = 2
               /\ vPreloadQueue'[2] = vPreloadQueue[1] )

\* ---- C9
\* C9: in the IntersectionObserver-driven image cache, prioritizeLoad(url) of
\* a url that waits in preloadQueue leaves the url in flight or still queued.
ObsPromotionKeepsRequest ==
  [][\A u \in ObsUrls :
       ( /\ \/ ObsPrioritizeLoad(u)
            \/ \E e \in ObsElements : oDataSrc[e] = u /\ ObsIntersecting(e)
         /\ SeqHas(oPreloadQueue, u)
         /\ ~Obs_isLoaded(ObsState, u) )
       => \/ oLoading'[u] > 0
          \/ SeqHas(oPreloadQueue', u)
    ]_vars

\* ---- C10
\* C10: a cleanup() step of the video or of the image service leaves no entry
\* older than CACHE_TTL, and keeps, as it was, every entry that was not older
\* than CACHE_TTL (in the image service: when those entries are at most
\* MAX_CACHE_SIZE).
CleanupSweepsExpired ==
  [][/\ VideoCleanup
        => /\ \A i \in 1..Len(vCache') :
                ~(now - vCache'[i].timestamp > VIDEO_CACHE_TTL)
           /\ \A i \in 1..Len(vCache) :
                now - vCache[i].timestamp <= VIDEO_CACHE_TTL
                => MapGet(vCache', vCache[i].url) = vCache[i]
     /\ ImageCleanup
        => /\ \A i \in 1..Len(iCache') :
                ~(now - iCache'[i].timestamp > IMAGE_CACHE_TTL)
           /\ Cardinality({i \in 1..Len(iCache) :
                  now - iCache[i].timestamp <= IMAGE_CACHE_TTL}) <= IMAGE_MAX_CACHE_SIZE
              => \A i \in 1..Len(iCache) :
                   now - iCache[i].timestamp <= IMAGE_CACHE_TTL
                   => MapGet(iCache', iCache[i].url) = iCache[i]
    ]_vars

\* The video cache holds an entry older than CACHE_TTL and one that is not,
\* and cleanup() is about to remove the one and keep the other.
CleanupSweepsExpiredWitness ==
  /\ driven = "video"
  /\ \E i, j \in 1..Len(vCache) :
       /\ now - vCache[i].timestamp > VIDEO_CACHE_TTL
       /\ now - vCache[j].timestamp <= VIDEO_CACHE_TTL
  /\ ENABLED (VideoCleanup /\ Len(vCache') = 1)

\* ---- C11
\* An image entry that cleanup() at the present time does not count as expired.
ImageFresh(e) == now - e.timestamp <= IMAGE_CACHE_TTL

\* C11: a cleanup() step of ImageCacheService leaves at most MAX_CACHE_SIZE
\* entries; it removes, of the entries that are not expired, as many as exceed
\* MAX_CACHE_SIZE and no more; and every entry removed for size is no newer
\* than any entry that stays.
ImageTrimOldestFirst ==
  [][ImageCleanup
     => LET fresh == {i \in 1..Len(iCache) : ImageFresh(iCache[i])}
            gone == {i \in fresh : ~MapHas(iCache', iCache[i].url)}
        IN /\ Len(iCache') <= IMAGE_MAX_CACHE_SIZE
           /\ Cardinality(gone) =
                IF Cardinality(fresh) > IMAGE_MAX_CACHE_SIZE
                THEN Cardinality(fresh) - IMAGE_MAX_CACHE_SIZE ELSE 0
           /\ \A i \in gone, j \in 1..Len(iCache') :
                iCache[i].timestamp <= iCache'[j].timestamp
           /\ \A j \in 1..Len(iCache') : MapGet(iCache, iCache'[j].url) = iCache'[j]
    ]_vars

\* More loaded entries than MAX_CACHE_SIZE, none expired, loaded at different
\* times, and cleanup() is about to drop the one loaded first, which is not
\* the first of the Map.
ImageTrimOldestFirstWitness ==
  /\ driven = "image"
  /\ Len(iCache) = IMAGE_MAX_CACHE_SIZE + 1
  /\ \A i \in 1..Len(iCache) : iCache[i].loaded /\ ImageFresh(iCache[i])
  /\ \A i, j \in 1..Len(iCache) : i # j => iCache[i].timestamp # iCache[j].timestamp
  /\ \E i \in 2..Len(iCache) :
       /\ \A j \in 1..Len(iCache) : iCache[i].timestamp <= iCache[j].timestamp
       /\ ENABLED ( /\ ImageCleanup
                    /\ Len(iCache') = IMAGE_MAX_CACHE_SIZE
                    /\ ~Image_isLoaded([cache |-> iCache'], iCache[i].url) )

\* ---- C12
\* C12: when cleanup() of the IntersectionObserver-driven image cache returns,
\* the cache holds at most MAX_CACHE_SIZE entries.
ObsCleanupWithinSize ==
  [][ObsCleanup => Len(oCache') <= OBS_MAX_CACHE_SIZE]_vars

\* ---- C13
\* C13: a cleanup() step of ImageCacheService deletes no entry whose load is
\* queued or in flight (loading = true).
ImageCleanupKeepsLoading ==
  [][ImageCleanup
     => \A i \in 1..Len(iCache) :
          iCache[i].loading => MapGet(iCache', iCache[i].url) = iCache[i]
    ]_vars

\* ---- C14
\* The bytes of the blobs the video cache holds.
RECURSIVE VideoResidentBytes(_)
VideoResidentBytes(m) ==
  IF m = <<>> THEN 0 ELSE Head(m).size + VideoResidentBytes(Tail(m))

\* C14: right after loadVideo has put a fetched video in the cache, the
\* resident videos take at most MAX_CACHE_SIZE bytes.
VideoAdmitWithinBudget ==
  [][\A u \in VideoUrls :
       VideoAdmit(u) => VideoResidentBytes(vCache') <= VIDEO_MAX_CACHE_SIZE
    ]_vars

\* ---- C15
\* What get(key) returns for the entry of key k, by the entry's age.
PostsGetByAge(k) ==
  LET entry == pCache[k]
      age == now - entry.timestamp
      result == Posts_getResult(PostsState, k, now)
  IN entry # None
     => /\ age <= POSTS_CACHE_TTL
           => result = [posts |-> entry.posts, lastDoc |-> entry.lastDoc,
                        needsRefresh |-> FALSE]
        /\ (age > POSTS_CACHE_TTL /\ age <= POSTS_STALE_TTL)
           => result = [posts |-> entry.posts, lastDoc |-> entry.lastDoc,
                        needsRefresh |-> TRUE]
        /\ age > POSTS_STALE_TTL
           => result = None /\ Posts_get(PostsState, k, now).cache[k] = None
        /\ entry.stale => (result = None \/ result.needsRefresh)

\* C15: set(key, posts, cursor) stores posts and cursor under key with the
\* time of the call and stale = false; and get(key) of an entry of age a
\* returns its posts and cursor with needsRefresh = false when a <= CACHE_TTL,
\* with needsRefresh = true when CACHE_TTL < a <= STALE_TTL, and null, deleting
\* the entry, when a > STALE_TTL; it never returns needsRefresh = false for an
\* entry whose stale flag is set.
PostsStaleWhileRevalidate ==
  [][/\ \A k \in PostKeys, posts \in PostLists, lastDoc \in PostCursors,
          written \in BOOLEAN :
          PostsSet(k, posts, lastDoc, written)
          => pCache'[k] = [posts |-> posts, lastDoc |-> lastDoc,
                           timestamp |-> now, stale |-> FALSE]
     /\ \A k \in PostKeys : PostsGetByAge(k)
     /\ \A k \in PostKeys :
          PostsGet(k)
          => /\ \A j \in PostKeys \ {k} : pCache'[j] = pCache[j]
             /\ pCache'[k] = IF Posts_getResult(PostsState, k, now) = None
                             THEN None ELSE pCache[k]
    ]_vars

\* An entry that set() stored, never marked stale, is now older than
\* CACHE_TTL and not older than STALE_TTL: get() asks for a refresh.
PostsStaleWhileRevalidateWitness ==
  /\ driven = "posts"
  /\ \E k \in PostKeys :
       /\ pCache[k] # None
       /\ pCache[k].lastDoc = 1
       /\ ~pCache[k].stale
       /\ now - pCache[k].timestamp > POSTS_CACHE_TTL
       /\ now - pCache[k].timestamp <= POSTS_STALE_TTL
       /\ Posts_getResult(PostsState, k, now).needsRefresh

\* ---- C16
\* The state a step leaves, as the record the handlers work on.
PostsStateNext == [cache |-> pCache', storage |-> pStorage', threw |-> pThrew']

\* The step is a construction that parses a snapshot.
PostsRehydrates == PostsReload(TRUE) /\ pStorage.kind = "snapshot"

\* After a rehydration: no entry is older than STALE_TTL, and every restored
\* entry older than CACHE_TTL is stale, so that get() asks for a refresh.
PostsRehydratedAges ==
  \A k \in PostKeys :
    pCache'[k] # None
    => /\ now - pCache'[k].timestamp <= POSTS_STALE_TTL
       /\ now - pCache'[k].timestamp > POSTS_CACHE_TTL
          => /\ pCache'[k].stale
             /\ Posts_getResult(PostsStateNext, k, now) # None
             /\ Posts_getResult(PostsStateNext, k, now).needsRefresh

\* C16 as stated: after initFromStorage parses a snapshot at time now, the
\* cache has no entry with now - timestamp > STALE_TTL, has every snapshot
\* entry whose age is within STALE_TTL (now - timestamp <= STALE_TTL), and
\* every restored entry with now - timestamp > CACHE_TTL is stale, so that the
\* next get(key) returns needsRefresh = true.
PostsRehydrationAsStated ==
  [][PostsRehydrates
     => /\ PostsRehydratedAges
        /\ \A k \in PostKeys :
             LET e == pStorage.data[k]
             IN (e # None /\ now - e.timestamp <= POSTS_STALE_TTL)
                => /\ pCache'[k] # None
                   /\ pCache'[k].posts = e.posts
                   /\ pCache'[k].timestamp = e.timestamp
    ]_vars

\* C16, amended: after initFromStorage parses a snapshot at time now, the
\* cache holds exactly the snapshot entries that have a non-empty posts array
\* and now - timestamp < STALE_TTL, with their posts, cursor and timestamp;
\* it has no entry with now - timestamp > STALE_TTL, and every restored entry
\* with now - timestamp > CACHE_TTL is stale, so that the next get(key)
\* returns needsRefresh = true.
PostsRehydration ==
  [][PostsRehydrates
     => /\ PostsRehydratedAges
        /\ \A k \in PostKeys :
             LET e == pStorage.data[k]
             IN IF e # None /\ e.posts # 0 /\ now - e.timestamp < POSTS_STALE_TTL
                THEN /\ pCache'[k] # None
                     /\ pCache'[k].posts = e.posts
                     /\ pCache'[k].lastDoc = e.lastDoc
                     /\ pCache'[k].timestamp = e.timestamp
                ELSE pCache'[k] = None
    ]_vars

\* A construction parses a snapshot that holds an entry older than CACHE_TTL
\* and younger than STALE_TTL, and restores it stale, and another entry that
\* it does not restore.
PostsRehydrationWitness ==
  /\ driven = "posts"
  /\ pStorage.kind = "snapshot"
  /\ \E k, j \in PostKeys :
       /\ pStorage.data[k] # None
       /\ pStorage.data[k].posts # 0
       /\ ~pStorage.data[k].stale
       /\ now - pStorage.data[k].timestamp > POSTS_CACHE_TTL
       /\ now - pStorage.data[k].timestamp < POSTS_STALE_TTL
       /\ pStorage.data[j] # None
       /\ ENABLED (PostsReload(TRUE) /\ pCache'[k] # None /\ pCache'[k].stale
                    /\ pCache'[j] = None)

\* ---- C17
\* The entry of u records a failed load that no preload has replaced since.
ImageErrored(u) ==
  /\ MapHas(iCache, u)
  /\ MapGet(iCache, u).error
  /\ ~MapGet(iCache, u).loaded

\* The step is a call that names u.
ImageCallOn(u) ==
  \/ \E p \in Priorities : ImagePreload(u, p)
  \/ ImagePrioritize(u)
  \/ \E urls \in ImageBatches, idx \in SUBSET (0..(MaxBatch - 1)) :
        /\ SeqHas(urls, u)
        /\ ImagePreloadBatch(urls, idx)

\* The state a step of the video service leaves.
VideoStateNext ==
  [cache |-> vCache', loadPromises |-> vLoadPromises', preloadQueue |-> vPreloadQueue',
   activeLoads |-> vActiveLoads', currentCacheSize |-> vCurrentCacheSize',
   fetching |-> vFetching', admitting |-> vAdmitting']

\* C17: a failed load is not retried automatically and does not block a
\* retry: the handler of the failure starts no fetch of the url, no fetch of
\* a url whose entry records the failure starts in a step that is not a call
\* on that url, and the next preload(url, 'high') or prioritize(url) starts a
\* fetch of it (when a slot is free, for a video).
FailedLoadRetriedOnlyOnRequest ==
  [][/\ \A u \in ImageUrls :
          /\ ImageOnerror(u) => iLoading'[u] < iLoading[u]
          /\ (ImageErrored(u) /\ iLoading'[u] > iLoading[u]) => ImageCallOn(u)
          /\ (ImageErrored(u) /\ u \notin iLoadPromises
                /\ (ImagePreload(u, "high") \/ ImagePrioritize(u)))
             => iLoading'[u] = iLoading[u] + 1
     /\ \A u \in VideoUrls :
          VideoFetchFailed(u)
          => /\ vFetching'[u] < vFetching[u]
             /\ (u \notin vLoadPromises' /\ ~MapHas(vCache', u)
                  /\ vActiveLoads' < VIDEO_MAX_CONCURRENT_LOADS)
                => Video_preload(VideoStateNext, u, "high", now).fetching[u]
                     = vFetching'[u] + 1
    ]_vars

\* ---- C18
\* The state a step of the image service leaves.
ImageStateNext ==
  [cache |-> iCache', loadPromises |-> iLoadPromises', preloadQueue |-> iPreloadQueue',
   activeLoads |-> iActiveLoads', loading |-> iLoading']

\* C18: clear() leaves the pending queue empty and no url resident, and a url
\* becomes resident only when a fetch completes that a call after the last
\* clear() registered (clear() empties loadPromises, so the url of such a
\* fetch is in loadPromises): a fetch that was in flight when clear() ran
\* does not put its url back.
ClearDropsEverything ==
  [][/\ VideoClear
        => /\ vPreloadQueue' = <<>>
           /\ \A u \in VideoUrls :
                /\ ~Video_isCached(VideoStateNext, u, now)
                /\ Video_getCachedUrl(VideoStateNext, u, now).cache = <<>>
     /\ ImageClear
        => /\ iPreloadQueue' = <<>>
           /\ \A u \in ImageUrls : ~Image_isLoaded(ImageStateNext, u)
     /\ \A u \in VideoUrls :
          (~MapHas(vCache, u) /\ MapHas(vCache', u)) => u \in vLoadPromises
     /\ \A u \in ImageUrls :
          (~Image_isLoaded(ImageState, u) /\ Image_isLoaded(ImageStateNext, u))
          => u \in iLoadPromises
    ]_vars

\* ---- C19
\* C19: a failure of the durable store never leaves PostsCacheService. When
\* setItem throws during set(key, posts, cursor), set returns normally and
\* get(key) then returns posts and cursor from memory; when it throws on
\* tab-hide the listener returns normally and the cache is unchanged; when the
\* stored snapshot cannot be parsed at construction, construction completes,
\* the cache is empty and the stored snapshot is removed.
PostsPersistenceFailuresContained ==
  [][/\ \A k \in PostKeys, posts \in PostLists, lastDoc \in PostCursors :
          PostsSet(k, posts, lastDoc, FALSE)
          => /\ ~pThrew'
             /\ Posts_getResult(PostsStateNext, k, now)
                  = [posts |-> posts, lastDoc |-> lastDoc, needsRefresh |-> FALSE]
     /\ PostsHidden(FALSE) => (~pThrew' /\ pCache' = pCache)
     /\ (PostsReload(TRUE) /\ pStorage = StorageGarbage)
        => /\ ~pThrew'
           /\ pCache' = PostsEmpty
           /\ pStorage' = StorageAbsent
    ]_vars

\* The store holds a text that does not parse while the cache holds an
\* entry: a construction is about to discard both; and a set() whose write
\* fails is about to replace the entry.
PostsPersistenceFailuresContainedWitness ==
  /\ driven = "posts"
  /\ pStorage = StorageGarbage
  /\ \E k \in PostKeys :
       /\ pCache[k] # None
       /\ ENABLED (PostsReload(TRUE) /\ pCache'[k] = None /\ pStorage' = StorageAbsent)
       /\ ENABLED (PostsSet(k, 1, 1, FALSE) /\ pStorage' = StorageGarbage
                    /\ pCache'[k] # pCache[k])

\* ---- C20
\* Exactly one of loading, loaded, error is true.
ImageOneLifecycleState(e) ==
  \/ (e.loading /\ ~e.loaded /\ ~e.error)
  \/ (~e.loading /\ e.loaded /\ ~e.error)
  \/ (~e.loading /\ ~e.loaded /\ e.error)

\* C20: every entry of the image cache has exactly one of loading, loaded,
\* error true, and an entry with loaded = true that stays resident keeps
\* loaded = true and acquires neither error = true nor loading = true.
ImageEntryLifecycle ==
  [][/\ \A i \in 1..Len(iCache) : ImageOneLifecycleState(iCache[i])
     /\ \A i \in 1..Len(iCache') : ImageOneLifecycleState(iCache'[i])
     /\ \A u \in ImageUrls :
          (Image_isLoaded(ImageState, u) /\ MapHas(iCache', u))
          => ImageOneLifecycleState(MapGet(iCache', u)) /\ MapGet(iCache', u).loaded
    ]_vars

\* ---- C21
\* C21: prioritize(url) for a url whose fetch is in flight, or which is
\* loaded (image) or cached (video), starts no fetch and leaves the cache,
\* the pending queue, the promise map and the active-load counter unchanged.
PrioritizeNoOpWhenBusy ==
  [][/\ \A u \in ImageUrls :
          (ImagePrioritize(u) /\ (iLoading[u] > 0 \/ Image_isLoaded(ImageState, u)))
          => UNCHANGED imageVars
     /\ \A u \in VideoUrls :
          (VideoPrioritize(u)
            /\ (VideoInFlight(u) > 0 \/ Video_isCached(VideoState, u, now)))
          => UNCHANGED videoVars
    ]_vars

\* ---- C22
\* C22: between the end of ensureSpace(size) for an incoming video and the
\* insertion of that video, no other fetch completion runs its ensureSpace:
\* at most one completion is between its space check and its insertion.
VideoAdmissionAtomic == SumOver(vAdmitting, VideoUrls) <= 1

\* ---- C23
\* C23: no blob URL is leaked. removeFromCache and clear() revoke the blob
\* URL of every entry they drop; the insertion at the end of loadVideo
\* revokes nothing, so it must never replace an entry: when a fetch of u is
\* admitted, u has no entry.
VideoNoLeakedBlobUrl ==
  [][\A u \in VideoUrls : VideoAdmit(u) => ~MapHas(vCache, u)]_vars

\* ---- C28
\* C28: currentCacheSize is the sum of size over the resident entries, and
\* is never negative.
VideoByteAccounting ==
  /\ vCurrentCacheSize = VideoResidentBytes(vCache)
  /\ vCurrentCacheSize >= 0

\* ---- C24
\* C24: right after a set(key, posts, cursor) whose write succeeds, the stored
\* snapshot holds exactly the entries in memory whose stale flag is false, as
\* JSON, the new key among them with stale = false, and nothing of an earlier
\* snapshot that is no longer in memory.
PostsSnapshotLastWriteWins ==
  [][\A k \in PostKeys, posts \in PostLists, lastDoc \in PostCursors :
       PostsSet(k, posts, lastDoc, TRUE)
       => /\ pStorage'.kind = "snapshot"
          /\ \A j \in PostKeys :
               pStorage'.data[j] = IF pCache'[j] # None /\ ~pCache'[j].stale
                                   THEN Posts_json(pCache'[j]) ELSE None
          /\ pStorage'.data[k] # None
          /\ pStorage'.data[k].posts = posts
          /\ ~pStorage'.data[k].stale
    ]_vars

\* The stored snapshot holds an entry under a key that memory no longer
\* holds, or holds stale; a set() of another key is about to write a
\* snapshot without it.
PostsSnapshotLastWriteWinsWitness ==
  /\ driven = "posts"
  /\ pStorage.kind = "snapshot"
  /\ \E k, j \in PostKeys :
       /\ j # k
       /\ pStorage.data[j] # None
       /\ (pCache[j] = None \/ pCache[j].stale)
       /\ ENABLED (PostsSet(k, 1, 1, TRUE) /\ pStorage'.data[j] = None
                    /\ pStorage'.data[k] # None)

\* ---- C27
\* C27: after invalidate(key), get(key) returns nothing, and it still returns
\* nothing when the tab is reloaded and the cache is rehydrated from the
\* stored snapshot before any other write.
PostsInvalidationDurable ==
  [][\A k \in PostKeys :
       PostsInvalidate(k)
       => /\ Posts_getResult(PostsStateNext, k, now) = None
          /\ Posts_getResult(
               Posts_initFromStorage(PostsStateNext, TRUE, now), k, now) = None
    ]_vars

\* ---- C29
\* A request of a caller, where the callers issue MaxRequests requests at
\* most: the fields after the call.
ImageRequest(s) ==
  /\ issued < MaxRequests
  /\ ImageWithinBound(s)
  /\ ImageSet(s)
  /\ issued' = issued + 1
  /\ UNCHANGED <<clock, videoVars, obsVars, postsVars, lazyVars, navVars, fetchVars>>

VideoRequest(s) ==
  /\ issued < MaxRequests
  /\ VideoSet(s)
  /\ issued' = issued + 1
  /\ UNCHANGED <<clock, imageVars, obsVars, postsVars, lazyVars, navVars, fetchVars>>

ImagePreloadRequest(u, p) ==
  /\ driven = "image"
  /\ ImageRequest(Image_preload(ImageState, u, p, now))

ImagePreloadBatchRequest(urls, idx) ==
  /\ driven = "image"
  /\ ImageRequest(Image_preloadBatch(ImageState, urls, idx, 1, now))

ImagePrioritizeRequest(u) ==
  /\ driven = "image"
  /\ ImageRequest(Image_prioritize(ImageState, u, now))

VideoPreloadRequest(u, p) ==
  /\ driven = "video"
  /\ VideoRequest(Video_preload(VideoState, u, p, now))

VideoPrioritizeRequest(u) ==
  /\ driven = "video"
  /\ VideoRequest(Video_prioritize(VideoState, u, now))

\* A load of an image completes; a fetch of a video moves on.
ImageCompletion == \E u \in ImageUrls : ImageOnload(u) \/ ImageOnerror(u)
VideoCompletion ==
  \E u \in VideoUrls : VideoFetchFailed(u) \/ VideoBlobReady(u) \/ VideoAdmit(u)

\* Finitely many requests, the completions, and the periodic cleanup;
\* clear() is not called.
MediaDrainNext ==
  \/ \E u \in ImageUrls, p \in Priorities : ImagePreloadRequest(u, p)
  \/ \E urls \in ImageBatches, idx \in SUBSET (0..(MaxBatch - 1)) :
        ImagePreloadBatchRequest(urls, idx)
  \/ \E u \in ImageUrls : ImagePrioritizeRequest(u)
  \/ \E u \in ImageUrls : ImageOnload(u)
  \/ \E u \in ImageUrls : ImageOnerror(u)
  \/ ImageCleanup
  \/ \E u \in VideoUrls, p \in Priorities : VideoPreloadRequest(u, p)
  \/ \E u \in VideoUrls : VideoPrioritizeRequest(u)
  \/ \E u \in VideoUrls : VideoFetchFailed(u)
  \/ \E u \in VideoUrls : VideoBlobReady(u)
  \/ \E u \in VideoUrls : VideoAdmit(u)
  \/ VideoCleanup

\* Every started fetch eventually completes.
SpecMediaDrain ==
  /\ InitMedia
  /\ [][MediaDrainNext]_vars
  /\ WF_vars(ImageCompletion)
  /\ WF_vars(VideoCompletion)

\* A non-empty queue has the configured limit of fetches in flight.
QueuedOnlyWhenFull ==
  /\ iPreloadQueue # <<>>
     => SumOver(iLoading, ImageUrlsWide) >= IMAGE_CONCURRENT_LOADS
  /\ vPreloadQueue # <<>>
     => SumOver([u \in VideoUrls |-> VideoInFlight(u)], VideoUrls)
          >= VIDEO_MAX_CONCURRENT_LOADS

\* C29: when every started fetch completes, clear() is not called and only
\* finitely many requests are issued, the pending queues of the image and of
\* the video service become empty and stay empty (every queued url has been
\* dispatched, or dropped as already resident); and in every state a
\* non-empty queue has at least the configured limit of fetches in flight.
QueueDrains ==
  /\ []QueuedOnlyWhenFull
  /\ <>[](iPreloadQueue = <<>> /\ vPreloadQueue = <<>>)

\* Both slots of a service are taken and a request waits in its queue; a
\* completion is about to dispatch it.
QueueDrainsWitness ==
  \/ /\ driven = "image"
     /\ Len(iPreloadQueue) > 0
     /\ iActiveLoads = IMAGE_CONCURRENT_LOADS
     /\ \E u \in ImageUrls :
          ENABLED (ImageOnload(u) /\ Len(iPreloadQueue') < Len(iPreloadQueue)
                   /\ iLoading'[Head(iPreloadQueue)] > iLoading[Head(iPreloadQueue)])
  \/ /\ driven = "video"
     /\ Len(vPreloadQueue) > 0
     /\ vActiveLoads = VIDEO_MAX_CONCURRENT_LOADS
     /\ \E u \in VideoUrls :
          ENABLED (VideoFetchFailed(u) /\ Len(vPreloadQueue') < Len(vPreloadQueue)
                   /\ vFetching'[Head(vPreloadQueue).url] > vFetching[Head(vPreloadQueue).url])

\* ---- C25
\* C25: once an unmuted play() has been rejected and playback has fallen back
\* to muted, the automatic play attempts (visibility observer, canplay) make
\* no unmuted attempt until the user interacts; and each rejection is
\* followed by exactly one muted retry.
LazyFallbackRemembered ==
  [][/\ (lvFellBack /\ (LazyPlayObserver(TRUE) \/ LazyCanPlay))
        => (lvAutoPlay' = lvAutoPlay /\ lvMuted' = lvMuted)
     /\ LazyAutoPlayRejected => lvMutedPlay' = lvMutedPlay + 1
    ]_vars

\* ---- C26
\* C26: whatever list of urls preloadImages is called with and however long
\* the loads take, at most 3 of the loads it started are in flight.
NavBatchBound == SumOver(nvLoading, NavUrls) <= NAV_BATCH

\* ---- C30
\* C30: a first-page fetchPosts served from postsCache returns the posts,
\* lastDoc and hasMore that the uncached call that filled the cache returned,
\* whatever number of posts that call produced.
FetchHitSameAsSource ==
  [][((\E docs \in 0..MaxFetched : FetchPosts(FALSE, docs, docs)) /\ fpResult'.hit)
       => /\ fpResult'.posts = fpSource.posts
          /\ fpResult'.lastDoc = fpSource.lastDoc
          /\ fpResult'.hasMore = fpSource.hasMore
    ]_vars

====
